---- MODULE Spec2Model ----
(***************************************************************************)
(* kumo: a terminal tool that runs a fixed catalogue of shell checks       *)
(* concurrently (runChecks) and shows the batch through a bubbletea        *)
(* model (Init / Update / View).  Model of src/main.go.                    *)
(*                                                                         *)
(* Strings are sequences of one-character strings, so that TrimSpace,      *)
(* concatenation and Sprintf are computed and not assumed.                 *)
(***************************************************************************)
EXTENDS Integers, Sequences, FiniteSets, TLC

VARIABLES
    loop,           \* the bubbletea program: "start", "running", "terminated"
    m,              \* the model value: [results, quitting, spinner]
    rc,             \* runChecks: "idle", "launching", "returned"
    launched,       \* index of the for loop over checks (goroutines started)
    wg,             \* sync.WaitGroup counter
    mutex,          \* holder of the sync.Mutex: a check index, or 0 when free
    results,        \* the shared slice of runChecks
    task,           \* one goroutine per check: its position and locals
    msgs,           \* messages in flight to Update: [batch, ticks, quits, teaQuits]
    inputs,         \* external messages (keys, window size) handled so far
    batches,        \* checkResultsMsg messages handled by Update so far
    ev              \* the last message handled by Update: [kind, flip]

vars == <<loop, m, rc, launched, wg, mutex, results, task,
          msgs, inputs, batches, ev>>

runnerVars == <<rc, launched, wg, mutex, results, task>>

(***************************************************************************)
(* Bounds of the model.                                                    *)
(***************************************************************************)
NumChecks == 2      \* catalogue entries modelled (the program has 10)
MaxInputs == 2      \* external messages (key presses, window size) per run

(***************************************************************************)
(* Program constants.                                                      *)
(***************************************************************************)
\* len(spinnerFrames)
NumSpinnerFrames == 10

\* outputFormat: main sets it once from the arguments, before the program
\* starts, and nothing writes it afterwards; View is given either value.
OutputFormats == {"", "json"}

(***************************************************************************)
(* Strings.                                                                *)
(***************************************************************************)
IsSpace(c) == c \in {" ", "\n", "\t"}

IsDigit(c) == c \in {"0", "1", "2", "3", "4", "5", "6", "7", "8", "9"}

RECURSIVE TrimLeft(_)
TrimLeft(s) ==
    IF s # <<>> /\ IsSpace(Head(s)) THEN TrimLeft(Tail(s)) ELSE s

RECURSIVE TrimRight(_)
TrimRight(s) ==
    IF s # <<>> /\ IsSpace(s[Len(s)])
    THEN TrimRight(SubSeq(s, 1, Len(s) - 1))
    ELSE s

\* strings.TrimSpace
TrimSpace(s) == TrimRight(TrimLeft(s))

Digit(d) == <<"0", "1", "2", "3", "4", "5", "6", "7", "8", "9">>[d + 1]

RECURSIVE Digits(_)
Digits(n) ==
    IF n < 10 THEN <<Digit(n)>> ELSE Digits(n \div 10) \o <<Digit(n % 10)>>

\* The verb %.2f applied to elapsed.Seconds(); the elapsed time is held in
\* milliseconds and rounded to hundredths of a second (the durations drawn
\* below are off the ties, where the binary fraction decides).
FormatSeconds(ms) ==
    LET cs == (ms + 5) \div 10
    IN  Digits(cs \div 100) \o <<".">> \o
        <<Digit((cs % 100) \div 10), Digit(cs % 10)>>

\* fmt.Sprintf("%s (%.2fs)", msg, elapsed.Seconds())
SprintfMessage(msg, ms) ==
    msg \o <<" ", "(">> \o FormatSeconds(ms) \o <<"s", ")">>

(***************************************************************************)
(* The catalogue of runChecks.  Names are "c1", "c2", ...; the hints are   *)
(* short texts with a space, like the program's.                           *)
(***************************************************************************)
Checks == 1 .. NumChecks

checks ==
    [i \in Checks |->
        [Name |-> <<"c", Digit(i)>>, ErrHint |-> <<"h", Digit(i), " ", "x">>]]

(***************************************************************************)
(* What the external command of a check may do: its exit, its combined     *)
(* output and its duration in milliseconds.  A command that cannot be      *)
(* launched produces no output.                                            *)
(***************************************************************************)
Exits == {"zero", "nonzero", "launchfail"}

\* The runs of the whole program draw one output and one duration; the
\* runs that look at the messages (MsgSpec) draw from the larger sets.
Outputs == { <<"o", "k", "\n">> }

Elapsed == {4}

MsgOutputs == { <<>>, <<" ", "a", "\n", "b", "\n">> }

MsgElapsed == {4, 996}

OutputsOf(exit, Outs) == IF exit = "launchfail" THEN {<<>>} ELSE Outs

\* Mutant of runCommand: the test of err is inverted.
runCommandInverted(exit, out) ==
    IF exit = "zero"
    THEN [status |-> "Failed", msg |-> TrimSpace(out)]
    ELSE [status |-> "Passed", msg |-> TrimSpace(out)]

\* runCommand: err # nil exactly when the command exits non-zero or bash
\* cannot be started.
runCommand(exit, out) ==
    IF exit # "zero"
    THEN [status |-> "Failed", msg |-> TrimSpace(out)]
    ELSE [status |-> "Passed", msg |-> TrimSpace(out)]

\* Mutant of WithHint: the hint is put in front whatever the status.
WithHintAlways(status, msg, errHint) ==
    errHint \o <<" ", "(">> \o msg \o <<")">>

\* Lines 80-82 of the goroutine: the hint is put in front of a failure.
WithHint(status, msg, errHint) ==
    IF status = "Failed" THEN errHint \o <<" ", "(">> \o msg \o <<")">> ELSE msg

\* The CheckResult literal of the append.
CheckResult(name, status, msg, ms) ==
    [Name |-> name, Status |-> status, Message |-> SprintfMessage(msg, ms)]

NoTask ==
    [pc |-> "none", exit |-> "none", out |-> <<>>, ms |-> 0,
     status |-> "", msg |-> <<>>, snap |-> <<>>, at |-> 0]

(***************************************************************************)
(* Initial state: main has built tea.NewProgram(model{}); nothing runs yet. *)
(***************************************************************************)
NoMsgs == [batch |-> <<>>, ticks |-> 0, quits |-> 0, teaQuits |-> 0]

Init ==
    /\ loop = "start"
    /\ m = [results |-> <<>>, quitting |-> FALSE, spinner |-> 0]
    /\ rc = "idle"
    /\ launched = 0
    /\ wg = 0
    /\ mutex = 0
    /\ results = <<>>
    /\ task = [i \in Checks |-> NoTask]
    /\ msgs = NoMsgs
    /\ inputs = 0
    /\ batches = 0
    /\ ev = [kind |-> "none", flip |-> 0]

\* The process lives until Run returns; main then returns and every
\* goroutine ends with it.
Alive == loop # "terminated"

(***************************************************************************)
(* runChecks and its goroutines.                                           *)
(***************************************************************************)
\* Mutant of ResultName: the goroutine reads the loop variable instead of
\* its own argument.
ResultNameOfLoopVariable(i) == checks[launched].Name

\* The name a goroutine reports: its own argument, passed at the go statement.
ResultName(i) == checks[i].Name

\* Mutant of MutexFree: the append is not guarded.
MutexIgnored == TRUE

\* mutex.Lock() may proceed.
MutexFree == mutex = 0

\* Mutant of WaitOver: runChecks returns without waiting.
WaitSkipped == TRUE

\* wg.Wait() may return.
WaitOver == wg = 0

\* for _, check := range checks { wg.Add(1); go func(...){...}(...) }
Spawn ==
    /\ Alive
    /\ rc = "launching"
    /\ launched < NumChecks
    /\ launched' = launched + 1
    /\ wg' = wg + 1
    /\ task' = [task EXCEPT ![launched + 1].pc = "run"]
    /\ UNCHANGED <<loop, m, rc, mutex, results, msgs, inputs, batches, ev>>

\* start := time.Now(); status, msg := runCommand(cmd); the hint;
\* elapsed := time.Since(start)
\* The locals of goroutine i once its command has ended with exit and out
\* after ms milliseconds.
AfterRun(t, i, exit, out, ms) ==
    LET r == runCommand(exit, out)
    IN  [t EXCEPT !.pc = "lock", !.exit = exit, !.out = out,
                  !.ms = ms, !.status = r.status,
                  !.msg = WithHint(r.status, r.msg, checks[i].ErrHint)]

TaskRun(i, Exs, Outs, Durs) ==
    /\ Alive
    /\ task[i].pc = "run"
    /\ \E exit \in Exs :
       \E out \in OutputsOf(exit, Outs) :
       \E ms \in Durs :
          task' = [task EXCEPT ![i] = AfterRun(@, i, exit, out, ms)]
    /\ UNCHANGED <<loop, m, rc, launched, wg, mutex, results,
                   msgs, inputs, batches, ev>>

\* The same step, observed: at is the place of the goroutine in the order
\* in which the commands ended and time.Since was read (1 for the first).
\* Only the runs that compare this order with the batch record it.
TaskRunObserved(i, Exs, Outs, Durs) ==
    /\ Alive
    /\ task[i].pc = "run"
    /\ \E exit \in Exs :
       \E out \in OutputsOf(exit, Outs) :
       \E ms \in Durs :
          task' = [task EXCEPT ![i] =
                      [AfterRun(@, i, exit, out, ms) EXCEPT !.at =
                          1 + Cardinality({j \in Checks :
                                  task[j].pc \notin {"none", "run"}})]]
    /\ UNCHANGED <<loop, m, rc, launched, wg, mutex, results,
                   msgs, inputs, batches, ev>>

\* mutex.Lock()
TaskLock(i) ==
    /\ Alive
    /\ task[i].pc = "lock"
    /\ MutexFree
    /\ mutex' = i
    /\ task' = [task EXCEPT ![i].pc = "read"]
    /\ UNCHANGED <<loop, m, rc, launched, wg, results, msgs,
                   inputs, batches, ev>>

\* append(results, ...): the slice is read ...
TaskRead(i) ==
    /\ Alive
    /\ task[i].pc = "read"
    /\ task' = [task EXCEPT ![i].pc = "write", ![i].snap = results]
    /\ UNCHANGED <<loop, m, rc, launched, wg, mutex, results,
                   msgs, inputs, batches, ev>>

\* Mutant of TaskWrite: the new CheckResult is put at the front.
TaskWriteInFront(i) ==
    /\ Alive
    /\ task[i].pc = "write"
    /\ results' = <<CheckResult(ResultName(i), task[i].status,
                                task[i].msg, task[i].ms)>> \o task[i].snap
    /\ task' = [task EXCEPT ![i].pc = "unlock", ![i].snap = <<>>]
    /\ UNCHANGED <<loop, m, rc, launched, wg, mutex, msgs,
                   inputs, batches, ev>>

\* ... and results = the slice with the new CheckResult at its end.
TaskWrite(i) ==
    /\ Alive
    /\ task[i].pc = "write"
    /\ results' = Append(task[i].snap,
                         CheckResult(ResultName(i), task[i].status,
                                     task[i].msg, task[i].ms))
    /\ task' = [task EXCEPT ![i].pc = "unlock", ![i].snap = <<>>]
    /\ UNCHANGED <<loop, m, rc, launched, wg, mutex, msgs,
                   inputs, batches, ev>>

\* mutex.Unlock()
TaskUnlock(i) ==
    /\ Alive
    /\ task[i].pc = "unlock"
    /\ mutex' = 0
    /\ task' = [task EXCEPT ![i].pc = "wgdone"]
    /\ UNCHANGED <<loop, m, rc, launched, wg, results, msgs,
                   inputs, batches, ev>>

\* Mutant of TaskDone: wg.Done() is not deferred and a failed check leaves
\* the goroutine before it.
TaskDoneUnlessFailed(i) ==
    /\ Alive
    /\ task[i].pc = "wgdone"
    /\ wg' = IF task[i].status = "Failed" THEN wg ELSE wg - 1
    /\ task' = [task EXCEPT ![i].pc = "exit"]
    /\ UNCHANGED <<loop, m, rc, launched, mutex, results, msgs,
                   inputs, batches, ev>>

\* defer wg.Done()
TaskDone(i) ==
    /\ Alive
    /\ task[i].pc = "wgdone"
    /\ wg' = wg - 1
    /\ task' = [task EXCEPT ![i].pc = "exit"]
    /\ UNCHANGED <<loop, m, rc, launched, mutex, results, msgs,
                   inputs, batches, ev>>

\* wg.Wait(); return results -- and the command of Init hands the slice to
\* the program as a checkResultsMsg.
RunChecksReturn ==
    /\ Alive
    /\ rc = "launching"
    /\ launched = NumChecks
    /\ WaitOver
    /\ rc' = "returned"
    /\ msgs' = [msgs EXCEPT !.batch = <<results>>]
    /\ UNCHANGED <<loop, m, launched, wg, mutex, results, task,
                   inputs, batches, ev>>

(***************************************************************************)
(* The bubbletea model.                                                    *)
(***************************************************************************)
\* Mutant of InitCmds: Init also returns a tick.
InitCmdsWithTick == {"runChecks", "tick"}

\* model.Init: the command it returns is started by the program.
InitCmds == {"runChecks"}

ModelInit ==
    /\ loop = "start"
    /\ loop' = "running"
    /\ rc' = IF "runChecks" \in InitCmds THEN "launching" ELSE rc
    /\ msgs' = [msgs EXCEPT !.ticks = IF "tick" \in InitCmds THEN @ + 1 ELSE @]
    /\ UNCHANGED <<m, launched, wg, mutex, results, task,
                   inputs, batches, ev>>

\* Mutant of Update: the quitMsg case returns no command.
UpdateQuitWithoutCmd(mm, msg) ==
    CASE msg.type = "checkResultsMsg" ->
            [m |-> [mm EXCEPT !.results = msg.val], cmd |-> "nil"]
      [] msg.type = "KeyMsg" /\ msg.key = "q" ->
            [m |-> mm, cmd |-> "quitMsg"]
      [] msg.type = "tickMsg" ->
            [m |-> [mm EXCEPT !.spinner = (mm.spinner + 1) % NumSpinnerFrames],
             cmd |-> "tick"]
      [] msg.type = "quitMsg" ->
            [m |-> [mm EXCEPT !.quitting = TRUE], cmd |-> "nil"]
      [] OTHER ->
            [m |-> mm, cmd |-> "tick"]

\* Mutant of Update: the batch is stored in a fresh model.
UpdateBatchResetsModel(mm, msg) ==
    CASE msg.type = "checkResultsMsg" ->
            [m |-> [results |-> msg.val, quitting |-> FALSE, spinner |-> 0],
             cmd |-> "nil"]
      [] msg.type = "KeyMsg" /\ msg.key = "q" ->
            [m |-> mm, cmd |-> "quitMsg"]
      [] msg.type = "tickMsg" ->
            [m |-> [mm EXCEPT !.spinner = (mm.spinner + 1) % NumSpinnerFrames],
             cmd |-> "tick"]
      [] msg.type = "quitMsg" ->
            [m |-> [mm EXCEPT !.quitting = TRUE], cmd |-> "tea.Quit"]
      [] OTHER ->
            [m |-> mm, cmd |-> "tick"]

\* Mutant of Update: the key q sets the quitting flag itself.
UpdateQuitsOnKey(mm, msg) ==
    CASE msg.type = "checkResultsMsg" ->
            [m |-> [mm EXCEPT !.results = msg.val], cmd |-> "nil"]
      [] msg.type = "KeyMsg" /\ msg.key = "q" ->
            [m |-> [mm EXCEPT !.quitting = TRUE], cmd |-> "tea.Quit"]
      [] msg.type = "tickMsg" ->
            [m |-> [mm EXCEPT !.spinner = (mm.spinner + 1) % NumSpinnerFrames],
             cmd |-> "tick"]
      [] msg.type = "quitMsg" ->
            [m |-> [mm EXCEPT !.quitting = TRUE], cmd |-> "tea.Quit"]
      [] OTHER ->
            [m |-> mm, cmd |-> "tick"]

\* Mutant of Update: a tick moves the spinner by two frames.
UpdateTickSkipsFrame(mm, msg) ==
    CASE msg.type = "checkResultsMsg" ->
            [m |-> [mm EXCEPT !.results = msg.val], cmd |-> "nil"]
      [] msg.type = "KeyMsg" /\ msg.key = "q" ->
            [m |-> mm, cmd |-> "quitMsg"]
      [] msg.type = "tickMsg" ->
            [m |-> [mm EXCEPT !.spinner = (mm.spinner + 2) % NumSpinnerFrames],
             cmd |-> "tick"]
      [] msg.type = "quitMsg" ->
            [m |-> [mm EXCEPT !.quitting = TRUE], cmd |-> "tea.Quit"]
      [] OTHER ->
            [m |-> mm, cmd |-> "tick"]

\* model.Update: the new model and the command returned.
\* msg is [type |-> "checkResultsMsg", val |-> batch], [type |-> "KeyMsg",
\* key |-> k], [type |-> "tickMsg"], [type |-> "quitMsg"] or anything else.
Update(mm, msg) ==
    CASE msg.type = "checkResultsMsg" ->
            [m |-> [mm EXCEPT !.results = msg.val], cmd |-> "nil"]
      [] msg.type = "KeyMsg" /\ msg.key = "q" ->
            [m |-> mm, cmd |-> "quitMsg"]
      [] msg.type = "tickMsg" ->
            [m |-> [mm EXCEPT !.spinner = (mm.spinner + 1) % NumSpinnerFrames],
             cmd |-> "tick"]
      [] msg.type = "quitMsg" ->
            [m |-> [mm EXCEPT !.quitting = TRUE], cmd |-> "tea.Quit"]
      [] OTHER ->
            [m |-> mm, cmd |-> "tick"]

\* The program runs the command returned by Update: its message is in
\* flight until the event loop takes it.
Schedule(q, cmd) ==
    CASE cmd = "tick"     -> [q EXCEPT !.ticks = @ + 1]
      [] cmd = "quitMsg"  -> [q EXCEPT !.quits = @ + 1]
      [] cmd = "tea.Quit" -> [q EXCEPT !.teaQuits = @ + 1]
      [] OTHER            -> q

\* What the last turn of the event loop handled, by the case of Update
\* that took it.
EvKind(msg) ==
    CASE msg.type = "KeyMsg" /\ msg.key = "q" -> "q"
      [] msg.type \in {"checkResultsMsg", "tickMsg", "quitMsg"} -> msg.type
      [] OTHER -> "other"

\* One turn of the event loop on msg, taken out of q.
Handle(msg, q) ==
    /\ loop = "running"
    /\ m' = Update(m, msg).m
    /\ msgs' = Schedule(q, Update(m, msg).cmd)
    /\ ev' = [kind |-> EvKind(msg), flip |-> 1 - ev.flip]

DeliverBatch ==
    /\ msgs.batch # <<>>
    /\ Handle([type |-> "checkResultsMsg", val |-> Head(msgs.batch)],
              [msgs EXCEPT !.batch = Tail(@)])
    /\ batches' = batches + 1
    /\ UNCHANGED <<loop, runnerVars, inputs>>

DeliverTick ==
    /\ msgs.ticks > 0
    /\ Handle([type |-> "tickMsg"], [msgs EXCEPT !.ticks = @ - 1])
    /\ UNCHANGED <<loop, runnerVars, inputs, batches>>

DeliverQuit ==
    /\ msgs.quits > 0
    /\ Handle([type |-> "quitMsg"], [msgs EXCEPT !.quits = @ - 1])
    /\ UNCHANGED <<loop, runnerVars, inputs, batches>>

Keys == {"q", "x"}

\* The user presses a key.
KeyPress(k) ==
    /\ inputs < MaxInputs
    /\ inputs' = inputs + 1
    /\ Handle([type |-> "KeyMsg", key |-> k], msgs)
    /\ UNCHANGED <<loop, runnerVars, batches>>

\* A message of the program itself that Update has no case for
\* (tea.WindowSizeMsg and the like).
OtherMsg ==
    /\ inputs < MaxInputs
    /\ inputs' = inputs + 1
    /\ Handle([type |-> "WindowSizeMsg"], msgs)
    /\ UNCHANGED <<loop, runnerVars, batches>>

\* tea.Quit's message ends the event loop: Run returns and main with it.
ProgramQuit ==
    /\ loop = "running"
    /\ msgs.teaQuits > 0
    /\ loop' = "terminated"
    /\ msgs' = [msgs EXCEPT !.teaQuits = @ - 1]
    /\ UNCHANGED <<m, runnerVars, inputs, batches, ev>>

\* Mutant of View: the test for an empty batch is missing.
ViewWithoutLoading(mm, format) ==
    IF mm.quitting THEN [kind |-> "exit"]
    ELSE IF format = "json"
         THEN [kind |-> "json", rows |-> mm.results]
         ELSE [kind |-> "table", rows |-> mm.results]

\* Mutant of View: the batch is looked at before the quitting flag.
ViewBatchFirst(mm, format) ==
    IF Len(mm.results) # 0
    THEN (IF format = "json"
          THEN [kind |-> "json", rows |-> mm.results]
          ELSE [kind |-> "table", rows |-> mm.results])
    ELSE IF mm.quitting THEN [kind |-> "exit"]
         ELSE [kind |-> "loading", frame |-> mm.spinner]

\* The least k with sep at s[k], or 0.
IndexOf(s, sep) ==
    LET at == {k \in 1 .. (Len(s) - Len(sep) + 1) :
                  SubSeq(s, k, k + Len(sep) - 1) = sep}
    IN  IF at = {} THEN 0 ELSE CHOOSE k \in at : \A j \in at : k <= j

\* strings.Split(s, sep), sep not empty
RECURSIVE Split(_, _)
Split(s, sep) ==
    LET k == IndexOf(s, sep)
    IN  IF k = 0 THEN <<s>>
        ELSE <<SubSeq(s, 1, k - 1)>> \o
             Split(SubSeq(s, k + Len(sep), Len(s)), sep)

\* strings.Join(parts, sep)
RECURSIVE Join(_, _)
Join(parts, sep) ==
    IF parts = <<>> THEN <<>>
    ELSE IF Len(parts) = 1 THEN parts[1]
    ELSE parts[1] \o sep \o Join(Tail(parts), sep)

\* The eight spaces put before a continuation line.
Indent == <<" ", " ", " ", " ", " ", " ", " ", " ">>

\* formatMessage
formatMessage(msg) ==
    LET parts == Split(msg, <<" ", "(">>)
    IN  IF Len(parts) # 2 THEN msg
        ELSE LET content == parts[1]
                 timing == <<"(">> \o parts[2]
             IN  IF IndexOf(content, <<"\n">>) # 0
                 THEN LET lines == Split(content, <<"\n">>)
                          indentedLines ==
                              [i \in 1 .. Len(lines) |->
                                  IF i = 1 THEN <<>> ELSE Indent \o lines[i]]
                      IN  Join(indentedLines, <<"\n">>) \o <<" ">> \o timing
                 ELSE content \o <<" ">> \o timing

\* One row of the tabular report: the glyph, the name and the message.
TableRow(result) ==
    [symbol |-> IF result.Status = "Failed" THEN "cross" ELSE "check",
     Name |-> result.Name,
     text |-> formatMessage(result.Message)]

\* model.View, as the kind of screen and what it shows.
View(mm, format) ==
    IF mm.quitting THEN [kind |-> "exit"]
    ELSE IF Len(mm.results) = 0
         THEN [kind |-> "loading", frame |-> mm.spinner]
         ELSE IF format = "json"
              THEN [kind |-> "json", rows |-> mm.results]
              ELSE [kind |-> "table",
                    rows |-> [k \in 1 .. Len(mm.results) |->
                                 TableRow(mm.results[k])]]

Next ==
    \/ ModelInit
    \/ Spawn
    \/ \E i \in Checks : TaskRun(i, Exits, Outputs, Elapsed)
    \/ \E i \in Checks : TaskLock(i)
    \/ \E i \in Checks : TaskRead(i)
    \/ \E i \in Checks : TaskWrite(i)
    \/ \E i \in Checks : TaskUnlock(i)
    \/ \E i \in Checks : TaskDone(i)
    \/ RunChecksReturn
    \/ DeliverBatch
    \/ DeliverTick
    \/ DeliverQuit
    \/ \E k \in Keys : KeyPress(k)
    \/ OtherMsg
    \/ ProgramQuit

Spec == Init /\ [][Next]_vars

\* The runner alone, with the user idle, over the larger sets of outputs
\* and durations.
NextMsg ==
    \/ ModelInit
    \/ Spawn
    \/ \E i \in Checks : TaskRun(i, Exits, MsgOutputs, MsgElapsed)
    \/ \E i \in Checks : TaskLock(i)
    \/ \E i \in Checks : TaskRead(i)
    \/ \E i \in Checks : TaskWrite(i)
    \/ \E i \in Checks : TaskUnlock(i)
    \/ \E i \in Checks : TaskDone(i)
    \/ RunChecksReturn
    \/ DeliverBatch

MsgSpec == Init /\ [][NextMsg]_vars

\* The runner alone, with the order in which the commands end observed.
NextOrder ==
    \/ ModelInit
    \/ Spawn
    \/ \E i \in Checks : TaskRunObserved(i, Exits, Outputs, Elapsed)
    \/ \E i \in Checks : TaskLock(i)
    \/ \E i \in Checks : TaskRead(i)
    \/ \E i \in Checks : TaskWrite(i)
    \/ \E i \in Checks : TaskUnlock(i)
    \/ \E i \in Checks : TaskDone(i)
    \/ RunChecksReturn
    \/ DeliverBatch

OrderSpec == Init /\ [][NextOrder]_vars

(***************************************************************************)
(* Scheduling: every goroutine that can take a step eventually takes it    *)
(* (the Go scheduler), and a message in flight is eventually received by   *)
(* the running event loop (senders blocked on the program's channel are    *)
(* served first come, first served).  The user owes no key press.          *)
(***************************************************************************)
RunnerFairness(Exs) ==
    /\ WF_vars(ModelInit)
    /\ WF_vars(Spawn)
    /\ \A i \in Checks :
          /\ WF_vars(TaskRun(i, Exs, Outputs, Elapsed))
          /\ WF_vars(TaskLock(i))
          /\ WF_vars(TaskRead(i))
          /\ WF_vars(TaskWrite(i))
          /\ WF_vars(TaskUnlock(i))
          /\ WF_vars(TaskDone(i))
    /\ WF_vars(RunChecksReturn)

LoopFairness ==
    /\ WF_vars(DeliverBatch)
    /\ WF_vars(DeliverTick)
    /\ WF_vars(DeliverQuit)
    /\ WF_vars(ProgramQuit)

\* The runner with every outcome of the commands, and a user who may press
\* the quit key at any moment and presses nothing else.
NextBatch ==
    \/ ModelInit
    \/ Spawn
    \/ \E i \in Checks : TaskRun(i, Exits, Outputs, Elapsed)
    \/ \E i \in Checks : TaskLock(i)
    \/ \E i \in Checks : TaskRead(i)
    \/ \E i \in Checks : TaskWrite(i)
    \/ \E i \in Checks : TaskUnlock(i)
    \/ \E i \in Checks : TaskDone(i)
    \/ RunChecksReturn
    \/ DeliverBatch
    \/ DeliverQuit
    \/ KeyPress("q")
    \/ ProgramQuit

BatchLiveSpec ==
    Init /\ [][NextBatch]_vars /\ RunnerFairness(Exits) /\ LoopFairness

\* The whole event loop, with every key and every message, beside a runner
\* whose commands all exit zero.
NextQuit ==
    \/ ModelInit
    \/ Spawn
    \/ \E i \in Checks : TaskRun(i, {"zero"}, Outputs, Elapsed)
    \/ \E i \in Checks : TaskLock(i)
    \/ \E i \in Checks : TaskRead(i)
    \/ \E i \in Checks : TaskWrite(i)
    \/ \E i \in Checks : TaskUnlock(i)
    \/ \E i \in Checks : TaskDone(i)
    \/ RunChecksReturn
    \/ DeliverBatch
    \/ DeliverTick
    \/ DeliverQuit
    \/ \E k \in Keys : KeyPress(k)
    \/ OtherMsg
    \/ ProgramQuit

QuitLiveSpec ==
    Init /\ [][NextQuit]_vars /\ RunnerFairness({"zero"}) /\ LoopFairness

\* The same steps with no scheduling assumed: the runs that look at single
\* steps of Update.
UiSpec == Init /\ [][NextQuit]_vars

(***************************************************************************)
(* Properties.                                                             *)
(***************************************************************************)
Positions(name) == {k \in 1 .. Len(results) : results[k].Name = name}

Appended(i) == task[i].pc \in {"unlock", "wgdone", "exit"}

AllFinished == \A i \in Checks : task[i].pc = "exit"

\* C1: for every interleaving of the goroutines, a check's result is in the
\* shared slice exactly once from its append on and never before, and the
\* slice runChecks returns holds exactly NumChecks results, one for each
\* catalogue name.
C1_OneResultPerCheck ==
    /\ \A i \in Checks :
          Cardinality(Positions(checks[i].Name)) = (IF Appended(i) THEN 1 ELSE 0)
    /\ \A k \in 1 .. Len(results) :
          \E i \in Checks : results[k].Name = checks[i].Name
    /\ rc = "returned" =>
          /\ Len(results) = NumChecks
          /\ \A i \in Checks : Cardinality(Positions(checks[i].Name)) = 1

\* Witness of C1: runChecks has returned a batch that is not in catalogue
\* order.
C1_Witness ==
    /\ rc = "returned"
    /\ results[1].Name = checks[NumChecks].Name

\* C2 as stated: in a finished run the checkResultsMsg was handled exactly
\* once, and it is handled only after every goroutine has appended and
\* finished.
C2_DeliveredExactlyOnce ==
    /\ loop = "terminated" => batches = 1
    /\ batches <= 1
    /\ batches = 1 => AllFinished

\* C2 amended: the checkResultsMsg is handled at most once (not at all when
\* the user quits before runChecks returns), and only after every goroutine
\* has appended its result and finished; what is handled is the slice with
\* all of the results.
C2_DeliveredAtMostOnceAfterAll ==
    /\ batches <= 1
    /\ batches = 1 =>
          /\ AllFinished
          /\ \A i \in Checks : Appended(i)
          /\ rc = "returned"
          /\ m.results = results
    /\ msgs.batch # <<>> => (batches = 0 /\ AllFinished /\ Len(msgs.batch) = 1)

\* Witness of C2: the batch has been delivered to a running event loop.
C2_Witness ==
    /\ batches = 1
    /\ loop = "running"
    /\ ev.kind = "checkResultsMsg"

\* C3: the batch held by the model is absent or has all NumChecks results,
\* whatever the goroutines have done so far; so has every batch in flight
\* and every batch a report shows.
C3_AbsentOrComplete ==
    /\ Len(m.results) \in {0, NumChecks}
    /\ \A k \in 1 .. Len(msgs.batch) : Len(msgs.batch[k]) = NumChecks
    /\ \A f \in OutputFormats :
          LET v == View(m, f)
          IN  v.kind \in {"table", "json"} => Len(v.rows) = NumChecks

\* Witness of C3: a complete batch is held by the model and rendered.
C3_Witness ==
    /\ Len(m.results) = NumChecks
    /\ \A f \in OutputFormats : View(m, f).kind \in {"table", "json"}

\* Witness of C3's other case: the event loop has handled a message (and
\* rendered) while the shared slice holds only some of the results.
C3_PartialWitness ==
    /\ Len(results) \in 1 .. NumChecks - 1
    /\ ev.kind # "none"
    /\ m.results = <<>>

\* C4 as stated: before the checkResultsMsg is handled every render is the
\* loading indicator.
C4_OnlyLoadingBeforeBatch ==
    batches = 0 =>
        \A f \in OutputFormats : View(m, f).kind = "loading"

\* C4 amended: before the checkResultsMsg is handled no render is the
\* tabular or the structured report; every render is the loading indicator
\* or, once the quitting flag is set, the exit notice.
C4_NoReportBeforeBatch ==
    batches = 0 =>
        \A f \in OutputFormats :
            /\ View(m, f).kind \notin {"table", "json"}
            /\ View(m, f) =
                  (IF m.quitting THEN [kind |-> "exit"]
                   ELSE [kind |-> "loading", frame |-> m.spinner])

\* Witness of C4: ticks and a key press have been handled, the spinner has
\* moved, and no batch has been delivered.
C4_Witness ==
    /\ batches = 0
    /\ ~m.quitting
    /\ m.spinner > 0
    /\ inputs = MaxInputs

\* C5: a check's status is Passed exactly when its command exits zero and
\* Failed when it exits non-zero or cannot be launched, in the goroutine
\* and in the result it appends; there is no third status.
C5_StatusFollowsExit ==
    /\ \A i \in Checks :
          task[i].pc \notin {"none", "run"} =>
              /\ task[i].status \in {"Passed", "Failed"}
              /\ task[i].status = "Passed" <=> task[i].exit = "zero"
              /\ task[i].status = "Failed" <=>
                     task[i].exit \in {"nonzero", "launchfail"}
    /\ \A k \in 1 .. Len(results) : \A i \in Checks :
          results[k].Name = checks[i].Name =>
              /\ results[k].Status \in {"Passed", "Failed"}
              /\ results[k].Status = "Passed" <=> task[i].exit = "zero"

\* Witness of C5: results of a command that exited zero and of one that
\* could not be launched are both in the slice.
C5_Witness ==
    /\ \E k \in 1 .. Len(results) : results[k].Status = "Passed"
    /\ \E i \in Checks : task[i].exit = "launchfail" /\ Appended(i)

Delivered ==
    /\ AllFinished
    /\ rc = "returned"
    /\ batches = 1
    /\ Len(m.results) = NumChecks

\* C6 as stated: whatever the commands' outcomes, every goroutine appends
\* its result and finishes, runChecks returns and the batch with all
\* NumChecks results is eventually delivered.
C6_BatchEventuallyDelivered == <>Delivered

\* C6 amended: whatever the commands' outcomes, every goroutine appends its
\* result and finishes, runChecks returns and the batch with all NumChecks
\* results is eventually delivered, unless the user quits first: the event
\* loop then terminates and the process ends with the batch undelivered.
C6_DeliveredUnlessQuit == <>(Delivered \/ loop = "terminated")

\* Witness of C6: a command could not be launched, a sibling exited zero,
\* and the complete batch has been delivered.
C6_Witness ==
    /\ Delivered
    /\ \E i \in Checks : task[i].exit = "launchfail"
    /\ \E i \in Checks : task[i].exit = "zero"

HasPrefix(s, p) == Len(p) <= Len(s) /\ SubSeq(s, 1, Len(p)) = p

Contains(s, sub) ==
    \E k \in 0 .. (Len(s) - Len(sub)) : SubSeq(s, k + 1, k + Len(sub)) = sub

AllSpaces(s) == \A k \in 1 .. Len(s) : IsSpace(s[k])

\* t is s without its leading and trailing white space.
IsTrimOf(t, s) ==
    /\ t = <<>> \/ (~IsSpace(t[1]) /\ ~IsSpace(t[Len(t)]))
    /\ \E a \in 0 .. Len(s) : \E b \in a .. Len(s) :
          /\ AllSpaces(SubSeq(s, 1, a))
          /\ SubSeq(s, a + 1, b) = t
          /\ AllSpaces(SubSeq(s, b + 1, Len(s)))

DigitValue(c) == CHOOSE d \in 0 .. 9 : Digit(d) = c

RECURSIVE ParseNat(_)
ParseNat(s) ==
    IF s = <<>> THEN 0
    ELSE 10 * ParseNat(SubSeq(s, 1, Len(s) - 1)) + DigitValue(s[Len(s)])

\* s is " (" digits "." digit digit "s)" and the number is ms milliseconds
\* to the nearest hundredth of a second.
IsDurationSuffix(s, ms) ==
    /\ Len(s) >= 8
    /\ s[1] = " " /\ s[2] = "("
    /\ s[Len(s)] = ")" /\ s[Len(s) - 1] = "s"
    /\ IsDigit(s[Len(s) - 2]) /\ IsDigit(s[Len(s) - 3])
    /\ s[Len(s) - 4] = "."
    /\ \A k \in 3 .. Len(s) - 5 : IsDigit(s[k])
    /\ LET cs == 100 * ParseNat(SubSeq(s, 3, Len(s) - 5))
                 + ParseNat(SubSeq(s, Len(s) - 3, Len(s) - 2))
       IN  10 * cs - 5 <= ms /\ ms < 10 * cs + 5

\* The message body (before the duration) of a message and its duration.
MessageSplits(msg, ms) ==
    {p \in 0 .. Len(msg) : IsDurationSuffix(SubSeq(msg, p + 1, Len(msg)), ms)}

ResultOf(i) == results[CHOOSE k \in 1 .. Len(results) : results[k].Name = checks[i].Name]

\* C7: the message of a Failed result holds the check's hint and the
\* trimmed output of the command, the message of a Passed result holds the
\* trimmed output and nothing else, and both end with the elapsed time in
\* parentheses, in seconds with two decimals.
C7_MessageFormat ==
    \A i \in Checks :
        Appended(i) =>
            LET r == ResultOf(i)
            IN  \E p \in MessageSplits(r.Message, task[i].ms) :
                    LET body == SubSeq(r.Message, 1, p)
                    IN  /\ r.Status = "Passed" => IsTrimOf(body, task[i].out)
                        /\ r.Status = "Failed" =>
                              /\ HasPrefix(body, checks[i].ErrHint)
                              /\ \E t \in {SubSeq(task[i].out, a, b) :
                                              a \in 1 .. Len(task[i].out) + 1,
                                              b \in 0 .. Len(task[i].out)} :
                                    /\ IsTrimOf(t, task[i].out)
                                    /\ Contains(SubSeq(body,
                                                       Len(checks[i].ErrHint) + 1,
                                                       Len(body)), t)

\* Witness of C7: a Failed and a Passed result of commands whose output
\* had white space to trim, one of them with a duration that rounds up.
C7_Witness ==
    /\ \E i \in Checks :
          /\ Appended(i) /\ task[i].status = "Failed"
          /\ task[i].out # <<>> /\ task[i].ms = 996
    /\ \E i \in Checks :
          /\ Appended(i) /\ task[i].status = "Passed"
          /\ task[i].out # <<>>

\* C8: handling the key q schedules a quitMsg, and from then on, messages
\* in flight being eventually handled, the quitting flag gets set and the
\* event loop terminates -- also when no batch has arrived yet.
C8_QuitKeyTerminates ==
    /\ [][(ev' # ev /\ ev'.kind = "q") => msgs'.quits = msgs.quits + 1]_vars
    /\ (ev.kind = "q") ~> (m.quitting /\ loop = "terminated")

\* Witness of C8: q has just been handled while loading, with a tick
\* in flight beside the quitMsg.
C8_Witness ==
    /\ ev.kind = "q"
    /\ batches = 0
    /\ msgs.ticks > 0
    /\ msgs.quits > 0

\* C9: once the quitting flag is set the render is the exit notice and
\* nothing else, with or without a batch and in either output format.
C9_QuittingShowsExit ==
    m.quitting => \A f \in OutputFormats : View(m, f) = [kind |-> "exit"]

\* Witness of C9: the flag is set and the model holds a batch.
C9_Witness ==
    /\ m.quitting
    /\ Len(m.results) = NumChecks

\* C10: once Init has run, and before Update has handled any message, the
\* runner is launched and a tick is in flight.
C10_TickPendingAfterInit ==
    (loop = "running" /\ ev.kind = "none") =>
        (rc # "idle" /\ msgs.ticks >= 1)

InCriticalSection(i) == task[i].pc \in {"read", "write", "unlock"}

\* C11: at most one goroutine is between mutex.Lock and mutex.Unlock, and
\* it is the holder of the mutex; what it writes back is the current slice
\* with its result at the end, so the slice always holds one result for
\* each goroutine that has appended: none is overwritten, none is lost.
C11_AppendsSerialized ==
    /\ Cardinality({i \in Checks : InCriticalSection(i)}) <= 1
    /\ \A i \in Checks : InCriticalSection(i) <=> mutex = i
    /\ \A i \in Checks : task[i].pc = "write" => task[i].snap = results
    /\ Len(results) = Cardinality({i \in Checks : Appended(i)})

\* Witness of C11: one goroutine is about to write the slice back while
\* another waits for the mutex.
C11_Witness ==
    \E i \in Checks : \E j \in Checks :
        /\ task[i].pc = "write"
        /\ task[j].pc = "lock"

PositionOf(i) == CHOOSE k \in 1 .. Len(results) : results[k].Name = checks[i].Name

HasLocked(i) == task[i].pc \in {"read", "write", "unlock", "wgdone", "exit"}

\* C12 as stated: of two results in the slice, the one whose command ended
\* (and whose elapsed time was taken) first comes first.
C12_FirstFinishedFirst ==
    \A a \in Checks : \A b \in Checks :
        (Appended(a) /\ Appended(b) /\ task[a].at < task[b].at) =>
            PositionOf(a) < PositionOf(b)

\* C12 amended: the batch is in the order in which the goroutines took the
\* mutex.  When a goroutine appends, its result goes behind the results of
\* all goroutines that took the mutex before it, whose places do not
\* change, and no other result is in the slice.
C12_LockOrderIsBatchOrder ==
    [][\A b \in Checks :
          (~Appended(b) /\ Appended(b)') =>
              /\ Len(results') = Len(results) + 1
              /\ results'[Len(results')].Name = checks[b].Name
              /\ \A a \in Checks \ {b} :
                    HasLocked(a) <=>
                        \E k \in 1 .. Len(results) :
                            /\ results[k].Name = checks[a].Name
                            /\ results'[k] = results[k]]_vars

\* Witness of C12: two results are in the slice in the order of the locks,
\* which is neither the order in which the commands ended nor the order of
\* the catalogue.
C12_Witness ==
    \E a \in Checks : \E b \in Checks :
        /\ Appended(a) /\ Appended(b)
        /\ task[a].at < task[b].at
        /\ a < b
        /\ PositionOf(b) < PositionOf(a)

\* A step in which Update handles a message of the given kind.
UpdateStep(kind) == ev' # ev /\ ev'.kind = kind

\* Loading, Displaying, Quitting.
Phase(mm) == IF mm.quitting THEN 2 ELSE IF mm.results # <<>> THEN 1 ELSE 0

\* C13: the presentation state only moves forward: a stored batch is never
\* removed or replaced, a set quitting flag is never cleared, and so the
\* state never goes back from Quitting or from Displaying.
C13_ForwardOnly ==
    [][/\ m.results # <<>> => m'.results = m.results
       /\ m.quitting => m'.quitting
       /\ Phase(m') >= Phase(m)]_vars

\* Witness of C13: the batch arrives when the quitting flag is already set.
C13_Witness ==
    /\ ev.kind = "checkResultsMsg"
    /\ m.quitting
    /\ m.results # <<>>
    /\ loop = "running"

\* C14: handling the key q leaves batch, quitting flag and spinner frame
\* as they are, puts one quitMsg in flight and nothing else, and touches no
\* goroutine of the runner; the quitting flag gets set only in the step
\* that handles a quitMsg.
C14_QuitKeyOnlySchedules ==
    [][/\ UpdateStep("q") =>
             /\ m' = m
             /\ msgs' = [msgs EXCEPT !.quits = @ + 1]
             /\ loop' = loop
             /\ UNCHANGED runnerVars
       /\ (~m.quitting /\ m'.quitting) => UpdateStep("quitMsg")]_vars

\* Witness of C14: q has been handled while a command is still running;
\* the flag is not set and one quitMsg is in flight.
C14_Witness ==
    /\ ev.kind = "q"
    /\ ~m.quitting
    /\ msgs.quits = 1
    /\ \E i \in Checks : task[i].pc = "run"

\* C15: handling a tick moves the spinner frame by exactly one modulo the
\* number of frames, takes one tick out of flight and puts one in, and
\* leaves batch and quitting flag alone; the frame index is always within
\* the frames.
C15_TickAdvancesSpinner ==
    /\ [](m.spinner \in 0 .. NumSpinnerFrames - 1)
    /\ [][UpdateStep("tickMsg") =>
             /\ m'.spinner = (IF m.spinner = NumSpinnerFrames - 1
                              THEN 0 ELSE m.spinner + 1)
             /\ msgs.ticks >= 1
             /\ msgs' = msgs
             /\ m'.results = m.results
             /\ m'.quitting = m.quitting]_vars

\* Witness of C15: the spinner has gone round once.
C15_Witness ==
    /\ ev.kind = "tickMsg"
    /\ m.spinner = 0

\* C16: once the quitting flag is set, handling a tick neither moves the
\* spinner frame nor puts a further tick in flight.
C16_NoTickWhenQuitting ==
    [][(m.quitting /\ UpdateStep("tickMsg")) =>
          /\ m'.spinner = m.spinner
          /\ msgs'.ticks = msgs.ticks - 1]_vars

\* The check a result belongs to.
CheckOf(result) == CHOOSE i \in Checks : checks[i].Name = result.Name

\* text shows the lines of body in order: the first line followed by the
\* timing, every further line on a line of its own behind white space.
ShowsAllLines(text, body, timing) ==
    LET lines == Split(body, <<"\n">>)
        shown == Split(text, <<"\n">>)
    IN  /\ Len(shown) = Len(lines)
        /\ shown[1] = lines[1] \o timing
        /\ \A k \in 2 .. Len(lines) :
              \E n \in 1 .. Len(shown[k]) :
                  /\ AllSpaces(SubSeq(shown[k], 1, n))
                  /\ SubSeq(shown[k], n + 1, Len(shown[k])) = lines[k]

\* C17: in the tabular report a result whose message body has several
\* lines is shown with all of them: the first line first, with the timing
\* attached to it, and each continuation line indented beneath, in order.
C17_MultiLineKept ==
    \A k \in 1 .. Len(m.results) :
        LET r == m.results[k]
            ms == task[CheckOf(r)].ms
        IN  \A p \in MessageSplits(r.Message, ms) :
                LET body == SubSeq(r.Message, 1, p)
                    timing == SubSeq(r.Message, p + 1, Len(r.Message))
                IN  IndexOf(body, <<"\n">>) # 0 =>
                        ShowsAllLines(View(m, "").rows[k].text, body, timing)

\* The messages handled so far that Update has no case for, counted from
\* what the run has consumed: every external message but the q keys, and
\* every q key is still a quitMsg in flight, or was handled as one and is
\* a tea.Quit message in flight or the one that ended the loop.
OthersHandled ==
    inputs - msgs.quits - msgs.teaQuits - (IF loop = "terminated" THEN 1 ELSE 0)

\* C18: a message Update has no case for (any key but q among them)
\* leaves batch, quitting flag and spinner frame alone and puts one more
\* tick in flight; no other step changes the number of ticks in flight,
\* which starts at none, never decreases and always equals the number of
\* such messages handled so far.
C18_TicksCountOtherMessages ==
    /\ [](msgs.ticks = OthersHandled)
    /\ [](ev.kind = "none" => msgs.ticks = 0)
    /\ [][/\ UpdateStep("other") =>
                /\ m' = m
                /\ msgs' = [msgs EXCEPT !.ticks = @ + 1]
          /\ msgs'.ticks >= msgs.ticks
          /\ msgs'.ticks # msgs.ticks => UpdateStep("other")]_vars

\* Witness of C18: two ticks are in flight at once, after two such
\* messages, and ticks have been handled.
C18_Witness ==
    /\ msgs.ticks = 2
    /\ ev.kind = "tickMsg"

\* C19: once the checkResultsMsg has been handled and while the quitting
\* flag is not set, every render is the report of the selected format and
\* never the loading indicator: the stored batch is not empty, it has one
\* result for each catalogue entry.
C19_ReportAfterBatch ==
    (batches >= 1 /\ ~m.quitting) =>
        /\ Len(m.results) = NumChecks
        /\ Len(m.results) # 0
        /\ \A f \in OutputFormats :
              LET v == View(m, f)
              IN  /\ v.kind = (IF f = "json" THEN "json" ELSE "table")
                  /\ v.kind # "loading"
                  /\ Len(v.rows) = NumChecks

\* Witness of C19: ticks are still handled after the batch has arrived.
C19_Witness ==
    /\ batches = 1
    /\ ~m.quitting
    /\ ev.kind = "tickMsg"

====
